---- MODULE Spec2Model ----
(***************************************************************************)
(* A model of pysteps.motion.proesmans.proesmans (the preprocessing        *)
(* wrapper around the optical-flow solver) and of                          *)
(* pysteps.tests.helpers.get_precipitation_fields.                         *)
(*                                                                         *)
(* numpy arrays are modelled as views into a heap of flat, C-ordered       *)
(* buffers, so that copying and aliasing are visible.  float64 values are  *)
(* modelled as binary fixed-point numbers with FracBits fractional bits,   *)
(* rounded to nearest-even after every division and multiplication, plus   *)
(* the IEEE special values nan and inf.                                    *)
(***************************************************************************)
EXTENDS Integers, Sequences, FiniteSets, TLC

\* ------------------------------------------------------------------ bounds
\* Largest number of array dimensions of an input.
MaxNdim == 4
\* Largest extent of one dimension of an input (the smallest is 0).
MaxDim == 3
\* Largest number of elements of an input array.
MaxPixels == 4
\* Input pixels take the integer values -1 .. MaxVal.
MaxVal == 1
\* Fractional bits of the fixed-point model of float64.
FracBits == 8
\* Number of consecutive calls made with the same array object and arguments.
MaxCalls == 2
\* get_precipitation_fields: largest num_prev_files / num_next_files.
MaxFiles == 1

\* ---------------------------------------------------------------- floats
Unit == 2 ^ FracBits

Fin(v) == [kind |-> "fin", v |-> v]
NaN == [kind |-> "nan", v |-> 0]
Inf(s) == [kind |-> "inf", v |-> s]
\* The value of a local that has not been assigned yet.
Unset == [kind |-> "unset", v |-> 0]
\* Pixel i of the array returned by the k-th gaussian_filter call of a run:
\* scipy's filter is not part of the repository and stays uninterpreted.
GaussPixel(k, i) == [kind |-> "gauss", v |-> k * (MaxPixels + 1) + i]

FromInt(n) == Fin(n * Unit)
IsFin(x) == x.kind = "fin"
Abs(n) == IF n < 0 THEN -n ELSE n
Sign(n) == IF n < 0 THEN -1 ELSE 1

\* a / b for a >= 0, b > 0, rounded to the nearest integer, ties to even.
RoundDiv(a, b) ==
  LET q == a \div b
      r == a % b
  IN  IF 2 * r < b THEN q
      ELSE IF 2 * r > b THEN q + 1
      ELSE IF q % 2 = 0 THEN q ELSE q + 1

\* x - y
FSub(x, y) ==
  IF IsFin(x) /\ IsFin(y) THEN Fin(x.v - y.v)
  ELSE IF x.kind = "inf" /\ IsFin(y) THEN x
  ELSE IF IsFin(x) /\ y.kind = "inf" THEN Inf(-y.v)
  ELSE IF x.kind = "inf" /\ y.kind = "inf" /\ x.v # y.v THEN x
  ELSE NaN

\* x / y: numpy's true division; 0/0 is nan and a/0 is +-inf (a warning, no
\* exception).
FDiv(x, y) ==
  IF IsFin(x) /\ IsFin(y)
  THEN IF y.v = 0
       THEN IF x.v = 0 THEN NaN ELSE Inf(Sign(x.v))
       ELSE Fin(Sign(x.v) * Sign(y.v) * RoundDiv(Abs(x.v) * Unit, Abs(y.v)))
  ELSE IF x.kind = "inf" /\ IsFin(y) THEN Inf(x.v * Sign(y.v))
  ELSE IF IsFin(x) /\ y.kind = "inf" THEN Fin(0)
  ELSE NaN

\* x * y
FMul(x, y) ==
  IF IsFin(x) /\ IsFin(y)
  THEN Fin(Sign(x.v) * Sign(y.v) * RoundDiv(Abs(x.v) * Abs(y.v), Unit))
  ELSE IF x.kind = "inf" /\ IsFin(y) /\ y.v # 0 THEN Inf(x.v * Sign(y.v))
  ELSE IF IsFin(x) /\ x.v # 0 /\ y.kind = "inf" THEN Inf(y.v * Sign(x.v))
  ELSE IF x.kind = "inf" /\ y.kind = "inf" THEN Inf(x.v * y.v)
  ELSE NaN

\* ---------------------------------------------------------------- arrays
RECURSIVE Size(_)
\* Number of elements of an array of the given shape.
Size(shape) == IF shape = <<>> THEN 1 ELSE Head(shape) * Size(Tail(shape))

\* A name that is not bound to an array.
Unbound == [buf |-> 0, off |-> 0, shape |-> <<>>]

\* The elements of array a, in C order.
Data(h, a) == SubSeq(h[a.buf], a.off + 1, a.off + Size(a.shape))

\* Python's index normalisation along an axis of length n.
NormIndex(i, n) == IF i < 0 THEN i + n ELSE i

\* Whether a[i, :, :] raises IndexError: too many indices, or i out of range.
IndexFails(a, i) ==
  \/ Len(a.shape) < 3
  \/ NormIndex(i, a.shape[1]) < 0
  \/ NormIndex(i, a.shape[1]) >= a.shape[1]

\* a[i, :, :]: a view into a's buffer.
Frame(a, i) ==
  [buf |-> a.buf,
   off |-> a.off + NormIndex(i, a.shape[1]) * Size(Tail(a.shape)),
   shape |-> Tail(a.shape)]

\* A fresh array holding data: the heap with a new buffer, and the array.
NewArray(h, data, shape) ==
  [heap |-> Append(h, data),
   arr |-> [buf |-> Len(h) + 1, off |-> 0, shape |-> shape]]

\* A copy that is forgotten: the view itself is returned.
CopyAliased(h, a) == [heap |-> h, arr |-> a]

\* a.copy()
Copy(h, a) == NewArray(h, Data(h, a), a.shape)

\* The frames stacked along the last axis instead of a new first one.
StackLastAxis(h, a, b) == NewArray(h, Data(h, a) \o Data(h, b), a.shape \o <<2>>)

\* np.stack([a, b])
Stack(h, a, b) == NewArray(h, Data(h, a) \o Data(h, b), <<2>> \o a.shape)

\* The minimum of the first frame alone.
NpMinFirstFrame(data) ==
  LET n == Len(data) \div 2
  IN  Fin(CHOOSE v \in {data[i].v : i \in 1..n} : \A i \in 1..n : v <= data[i].v)

\* np.min(a) and np.max(a) over every element; nan propagates.
NpMin(data) ==
  IF \E i \in 1..Len(data) : ~IsFin(data[i]) THEN NaN
  ELSE Fin(CHOOSE v \in {data[i].v : i \in 1..Len(data)} :
             \A i \in 1..Len(data) : v <= data[i].v)

NpMax(data) ==
  IF \E i \in 1..Len(data) : ~IsFin(data[i]) THEN NaN
  ELSE Fin(CHOOSE v \in {data[i].v : i \in 1..Len(data)} :
             \A i \in 1..Len(data) : v >= data[i].v)

\* The literal 255.0 of the rescaling.
ScaleMax == 255

\* (x - im_min) / (im_max - im_min) * 255.0, evaluated left to right.
RescalePixel(x, mn, mx) ==
  FMul(FDiv(FSub(x, mn), FSub(mx, mn)), FromInt(ScaleMax))

\* (im - im_min) / (im_max - im_min) * 255.0: a fresh array.
Rescale(h, a, mn, mx) ==
  NewArray(h, [i \in 1..Size(a.shape) |-> RescalePixel(Data(h, a)[i], mn, mx)],
           a.shape)

\* gaussian_filter(a, sigma): a fresh array of a's shape; k numbers the call.
GaussianFilter(k, n) == [i \in 1..n |-> GaussPixel(k, i)]

\* The assignment aimed at the caller's array (buffer 1) instead of target.
AssignFrameToCaller(h, target, i, data) ==
  LET f == Frame([buf |-> 1, off |-> 0, shape |-> target.shape], i)
  IN  [h EXCEPT ![1] =
         [j \in 1..Len(h[1]) |->
            IF j > f.off /\ j <= f.off + Len(data)
            THEN data[j - f.off] ELSE h[1][j]]]

\* target[i, :, :] = data: writes through the view into target's buffer.
AssignFrame(h, target, i, data) ==
  LET f == Frame(target, i)
  IN  [h EXCEPT ![f.buf] =
         [j \in 1..Len(h[f.buf]) |->
            IF j > f.off /\ j <= f.off + Len(data)
            THEN data[j - f.off] ELSE h[f.buf][j]]]

\* ------------------------------------------------------------ exceptions
NoError == [type |-> "none", msg |-> <<>>]

Digits == <<"0", "1", "2", "3", "4", "5", "6", "7", "8", "9">>

RECURSIVE DecStr(_)
\* str(n) for an int n >= 0, one character per element.
DecStr(n) ==
  IF n < 10 THEN <<Digits[n + 1]>>
  ELSE DecStr(n \div 10) \o <<Digits[(n % 10) + 1]>>

RECURSIVE JoinDims(_)
\* "d1, d2, ..., dk" for a non-empty tuple.
JoinDims(shape) ==
  IF Len(shape) = 1 THEN DecStr(shape[1])
  ELSE DecStr(Head(shape)) \o <<",", " ">> \o JoinDims(Tail(shape))

\* str(shape) of a tuple of ints: "()", "(d,)" or "(d1, d2, ...)".
TupleStr(shape) ==
  IF shape = <<>> THEN <<"(", ")">>
  ELSE IF Len(shape) = 1 THEN <<"(">> \o DecStr(shape[1]) \o <<",", ")">>
  ELSE <<"(">> \o JoinDims(shape) \o <<")">>

\* The ValueError raised by the shape check.
ShapeError(shape) ==
  [type |-> "ValueError",
   msg |-> <<"input_images dimension mismatch.\n", "input_images.shape: ">>
           \o TupleStr(shape) \o <<"\n(2, m, n) expected">>]

IndexError == [type |-> "IndexError", msg |-> <<"index out of bounds">>]

\* The ValueError np.min raises for an array without elements.
ZeroSizeError ==
  [type |-> "ValueError",
   msg |-> <<"zero-size array to reduction operation minimum which has no identity">>]

\* The shape test without its test of the number of dimensions.
ShapeMismatchNoNdim(shape) == shape[1] # 2

\* The shape test without its test of the first dimension.
ShapeMismatchNoLeading(shape) == Len(shape) # 3

\* (input_images.ndim != 3) or input_images.shape[0] != 2
ShapeMismatch(shape) == (Len(shape) # 3) \/ shape[1] # 2

\* The default arguments of proesmans.
DefaultLam == 50
DefaultNumIter == 100
DefaultNumLevels == 6

\* _compute_advection_field(im, lam, num_iter, num_levels): the compiled
\* solver, a deterministic function of its arguments that returns a motion
\* field of the shape of im.
ComputeAdvectionField(data, shape, l, ni, nl) ==
  [shape |-> shape, args |-> <<data, shape, l, ni, nl>>]

NoResult == [shape |-> <<>>, args |-> <<>>]

\* ----------------------------------------------------------------- state
VARIABLES
  heap,          \* the buffers alive; buffer 1 is the caller's array
  input_images, lam, num_iter, num_levels, filter_std,   \* the arguments
  im1, im2, im, im_min, im_max,                           \* the locals
  pc,            \* the position in proesmans
  err,           \* the exception raised, or NoError
  ret,           \* the value returned, or NoResult
  gauss_calls,   \* the gaussian_filter calls of this run: <<data, sigma>>
  solver_calls,  \* the _compute_advection_field calls of this run
  div_by_zero,   \* a division by (im_max - im_min) = 0 was executed
  rescaled,      \* the elements of im right after the rescaling
  input_before,  \* the elements of input_images when the call was entered
  call_no,       \* the number of the running call
  prev,          \* what the previous call with these arguments did
  \* get_precipitation_fields
  source, num_prev_files, num_next_files, return_raw, metadata, upscale,
  reference_field, ref_metadata,   \* the locals
  hpc,           \* the position in get_precipitation_fields
  herr,          \* the exception raised there, or NoError
  hret           \* the value returned there

pvars == <<heap, input_images, lam, num_iter, num_levels, filter_std,
           im1, im2, im, im_min, im_max, pc, err, ret, gauss_calls,
           solver_calls, div_by_zero, rescaled, input_before, call_no, prev>>

hvars == <<source, num_prev_files, num_next_files, return_raw, metadata,
           upscale, reference_field, ref_metadata, hpc, herr, hret>>

vars == <<pvars, hvars>>

\* -------------------------------------------- get_precipitation_fields
\* _reference_dates: year, month, day, hour, minute.
ReferenceDates ==
  [bom   |-> <<2018, 6, 16, 10, 0>>,
   fmi   |-> <<2016, 9, 28, 16, 0>>,
   knmi  |-> <<2010, 8, 26, 0, 0>>,
   mch   |-> <<2015, 5, 15, 16, 30>>,
   opera |-> <<2018, 8, 24, 18, 0>>,
   saf   |-> <<2018, 6, 1, 7, 0>>]

\* The module pytest.importorskip asks for, per source.
RequiredModule ==
  [bom |-> "netCDF4", fmi |-> "pyproj", knmi |-> "h5py",
   mch |-> "PIL", opera |-> "h5py", saf |-> "netCDF4"]

\* The array and the metadata io.read_timeseries returns for the files found:
\* one frame per file, along a leading time axis.
RawField(np, nn) == [frames |-> np + nn + 1, time_axis |-> TRUE, ops |-> <<>>]
RawMetadata == [ops |-> <<>>]

NoField == [frames |-> 0, time_axis |-> FALSE, ops |-> <<>>]

\* np.squeeze(a): the time axis goes if it has length one (the grid axes are
\* longer than one).
Squeeze(f) ==
  [f EXCEPT !.time_axis = (f.frames # 1), !.ops = Append(@, "squeeze")]

\* The functions of pysteps.utils and numpy.ma, known by what was applied.
Applied(x, op) == [x EXCEPT !.ops = Append(@, op)]

\* aggregate_fields_space(R, metadata, upscale): nothing is modified when
\* upscale is None.
AggregateFieldsSpace(x, window) ==
  IF window = "None" THEN x ELSE Applied(x, "aggregate_fields_space")

\* The squeeze done for one file too many: whenever no previous file is asked.
SqueezeWantedNoPrev(np, nn) == np = 0

\* (num_prev_files == 0) and (num_next_files == 0)
SqueezeWanted(np, nn) == (np = 0) /\ (nn = 0)

\* not return_raw
PreprocessWanted(raw) == ~raw

Sources == DOMAIN ReferenceDates \cup {"unknown"}

HelperIdle ==
  /\ source = "mch" /\ num_prev_files = 0 /\ num_next_files = 0
  /\ return_raw = FALSE /\ metadata = FALSE /\ upscale = "None"
  /\ reference_field = NoField /\ ref_metadata = RawMetadata
  /\ hpc = "idle" /\ herr = NoError /\ hret = <<>>

\* ---------------------------------------------------------------- inputs
PixelValues == {FromInt(n) : n \in -1..MaxVal}

Shapes ==
  {s \in UNION {[1..n -> 0..MaxDim] : n \in 1..MaxNdim} : Size(s) <= MaxPixels}

FilterStds == {-1, 0, 2}

SolverArgs == {<<DefaultLam, DefaultNumIter, DefaultNumLevels>>, <<1, 1, 1>>}

Outcome == [err |-> err, ret |-> ret, gauss |-> gauss_calls, solver |-> solver_calls]

NoOutcome ==
  [err |-> NoError, ret |-> NoResult, gauss |-> <<>>, solver |-> <<>>]

\* A caller holds an array of some shape and calls proesmans on it.
Init ==
  /\ \E shape \in Shapes : \E data \in [1..Size(shape) -> PixelValues] :
       /\ heap = <<data>>
       /\ input_images = [buf |-> 1, off |-> 0, shape |-> shape]
       /\ input_before = data
  /\ \E a \in SolverArgs : lam = a[1] /\ num_iter = a[2] /\ num_levels = a[3]
  /\ filter_std \in FilterStds
  /\ im1 = Unbound /\ im2 = Unbound /\ im = Unbound
  /\ im_min = Unset /\ im_max = Unset
  /\ pc = "validate"
  /\ err = NoError /\ ret = NoResult
  /\ gauss_calls = <<>> /\ solver_calls = <<>>
  /\ div_by_zero = FALSE
  /\ rescaled = <<>>
  /\ call_no = 1
  /\ prev = NoOutcome
  /\ HelperIdle

\* ----------------------------------------------------------------- steps
\* Lines 40-43: the shape check.
Validate ==
  /\ pc = "validate"
  /\ IF ShapeMismatch(input_images.shape)
     THEN pc' = "raised" /\ err' = ShapeError(input_images.shape)
     ELSE pc' = "copy" /\ err' = err
  /\ UNCHANGED <<heap, input_images, lam, num_iter, num_levels, filter_std,
                 im1, im2, im, im_min, im_max, ret, gauss_calls, solver_calls,
                 div_by_zero, rescaled, input_before, call_no, prev, hvars>>

\* The index of the second image along the leading axis.
SecondIndex == -1

\* The first image taken from the last frame too.
FirstIndexAsSecond == SecondIndex

\* The index of the first image along the leading axis.
FirstIndex == -2

\* Lines 45-46: im1 = input_images[-2, :, :].copy(), and im2 with -1.
CopyFrames ==
  /\ pc = "copy"
  /\ IF IndexFails(input_images, FirstIndex) \/ IndexFails(input_images, SecondIndex)
     THEN /\ pc' = "raised" /\ err' = IndexError
          /\ UNCHANGED <<heap, im1, im2>>
     ELSE LET c1 == Copy(heap, Frame(input_images, FirstIndex))
              c2 == Copy(c1.heap, Frame(input_images, SecondIndex))
          IN  /\ heap' = c2.heap
              /\ im1' = c1.arr
              /\ im2' = c2.arr
              /\ pc' = "stack" /\ err' = err
  /\ UNCHANGED <<input_images, lam, num_iter, num_levels, filter_std,
                 im, im_min, im_max, ret, gauss_calls, solver_calls,
                 div_by_zero, rescaled, input_before, call_no, prev, hvars>>

\* Lines 48-50: im = np.stack([im1, im2]); im_min = np.min(im); im_max = np.max(im).
\* np.min raises for an array without elements.
StackFrames ==
  /\ pc = "stack"
  /\ LET s == Stack(heap, im1, im2)
     IN  /\ heap' = s.heap
         /\ im' = s.arr
         /\ IF Size(s.arr.shape) = 0
            THEN /\ pc' = "raised" /\ err' = ZeroSizeError
                 /\ UNCHANGED <<im_min, im_max>>
            ELSE /\ im_min' = NpMin(Data(s.heap, s.arr))
                 /\ im_max' = NpMax(Data(s.heap, s.arr))
                 /\ pc' = "rescale" /\ err' = err
  /\ UNCHANGED <<input_images, lam, num_iter, num_levels, filter_std,
                 im1, im2, ret, gauss_calls, solver_calls,
                 div_by_zero, rescaled, input_before, call_no, prev, hvars>>

\* Line 51: im = (im - im_min) / (im_max - im_min) * 255.0.
RescaleImages ==
  /\ pc = "rescale"
  /\ LET r == Rescale(heap, im, im_min, im_max)
     IN  /\ heap' = r.heap
         /\ im' = r.arr
         /\ rescaled' = Data(r.heap, r.arr)
  /\ div_by_zero' = (div_by_zero \/ FSub(im_max, im_min) = Fin(0))
  /\ pc' = "filter"
  /\ UNCHANGED <<input_images, lam, num_iter, num_levels, filter_std,
                 im1, im2, im_min, im_max, err, ret, gauss_calls, solver_calls,
                 input_before, call_no, prev, hvars>>

\* The filter switched on at zero as well.
FilterEnabledAtZero(std) == std >= 0

\* filter_std > 0.0
FilterEnabled(std) == std > 0

\* Lines 53-55: the optional Gaussian filter, frame 0 and then frame 1, each
\* written back into im.
SmoothImages ==
  /\ pc = "filter"
  /\ IF FilterEnabled(filter_std)
     THEN LET n == Size(Tail(im.shape))
              a0 == Data(heap, Frame(im, 0))
              h0 == AssignFrame(heap, im, 0, GaussianFilter(1, n))
              a1 == Data(h0, Frame(im, 1))
              h1 == AssignFrame(h0, im, 1, GaussianFilter(2, n))
          IN  /\ heap' = h1
              /\ gauss_calls' = gauss_calls \o <<<<a0, filter_std>>, <<a1, filter_std>>>>
     ELSE UNCHANGED <<heap, gauss_calls>>
  /\ pc' = "solve"
  /\ UNCHANGED <<input_images, lam, num_iter, num_levels, filter_std,
                 im1, im2, im, im_min, im_max, err, ret, solver_calls,
                 div_by_zero, rescaled, input_before, call_no, prev, hvars>>

\* Line 57: return _compute_advection_field(im, lam, num_iter, num_levels).
Solve ==
  /\ pc = "solve"
  /\ solver_calls' = Append(solver_calls,
                            <<Data(heap, im), im.shape, lam, num_iter, num_levels>>)
  /\ ret' = ComputeAdvectionField(Data(heap, im), im.shape, lam, num_iter, num_levels)
  /\ pc' = "done"
  /\ UNCHANGED <<heap, input_images, lam, num_iter, num_levels, filter_std,
                 im1, im2, im, im_min, im_max, err, gauss_calls,
                 div_by_zero, rescaled, input_before, call_no, prev, hvars>>

\* The caller calls proesmans again with the same array object and the same
\* arguments; the locals of the finished call are gone.
CallAgain ==
  /\ pc \in {"done", "raised"}
  /\ call_no < MaxCalls
  /\ call_no' = call_no + 1
  /\ prev' = Outcome
  /\ heap' = <<heap[1]>>
  /\ input_before' = Data(heap, input_images)
  /\ im1' = Unbound /\ im2' = Unbound /\ im' = Unbound
  /\ im_min' = Unset /\ im_max' = Unset
  /\ pc' = "validate"
  /\ err' = NoError /\ ret' = NoResult
  /\ gauss_calls' = <<>> /\ solver_calls' = <<>>
  /\ div_by_zero' = FALSE
  /\ rescaled' = <<>>
  /\ UNCHANGED <<input_images, lam, num_iter, num_levels, filter_std, hvars>>

Next ==
  \/ Validate
  \/ CopyFrames
  \/ StackFrames
  \/ RescaleImages
  \/ SmoothImages
  \/ Solve
  \/ CallAgain

Spec == Init /\ [][Next]_vars

\* ------------------------------------- steps of get_precipitation_fields
ProesmansIdle ==
  /\ heap = <<<<>>>>
  /\ input_images = Unbound
  /\ input_before = <<>>
  /\ lam = DefaultLam /\ num_iter = DefaultNumIter /\ num_levels = DefaultNumLevels
  /\ filter_std = 0
  /\ im1 = Unbound /\ im2 = Unbound /\ im = Unbound
  /\ im_min = Unset /\ im_max = Unset
  /\ pc = "idle"
  /\ err = NoError /\ ret = NoResult
  /\ gauss_calls = <<>> /\ solver_calls = <<>>
  /\ div_by_zero = FALSE
  /\ rescaled = <<>>
  /\ call_no = 0
  /\ prev = NoOutcome

\* A test calls get_precipitation_fields.
InitFields ==
  /\ source \in Sources
  /\ num_prev_files \in 0..MaxFiles
  /\ num_next_files \in 0..MaxFiles
  /\ return_raw \in BOOLEAN
  /\ metadata \in BOOLEAN
  /\ upscale \in {"None", "2000.0"}
  /\ reference_field = NoField /\ ref_metadata = RawMetadata
  /\ hpc = "import" /\ herr = NoError /\ hret = <<>>
  /\ ProesmansIdle

\* Lines 89-105: pytest.importorskip of the module the source needs; the
\* test is skipped when the module is not installed.
ImportOrSkip ==
  /\ hpc = "import"
  /\ \E installed \in BOOLEAN :
       IF source \in DOMAIN RequiredModule /\ ~installed
       THEN /\ hpc' = "skipped"
            /\ herr' = [type |-> "Skipped", msg |-> <<RequiredModule[source]>>]
       ELSE hpc' = "lookup" /\ herr' = herr
  /\ UNCHANGED <<source, num_prev_files, num_next_files, return_raw, metadata,
                 upscale, reference_field, ref_metadata, hret, pvars>>

\* Lines 107-112: the reference date; an unknown source is a ValueError.
LookupDate ==
  /\ hpc = "lookup"
  /\ IF source \in DOMAIN ReferenceDates
     THEN hpc' = "read" /\ herr' = herr
     ELSE /\ hpc' = "raised"
          /\ herr' = [type |-> "ValueError",
                      msg |-> <<"Unknown source name '", source, "'\n",
                                "The available data sources are: ">>]
  /\ UNCHANGED <<source, num_prev_files, num_next_files, return_raw, metadata,
                 upscale, reference_field, ref_metadata, hret, pvars>>

\* Lines 114-136: the files around the reference date are found and read.
ReadTimeseries ==
  /\ hpc = "read"
  /\ reference_field' = RawField(num_prev_files, num_next_files)
  /\ ref_metadata' = RawMetadata
  /\ hpc' = IF PreprocessWanted(return_raw) THEN "squeeze" ELSE "return"
  /\ UNCHANGED <<source, num_prev_files, num_next_files, return_raw, metadata,
                 upscale, herr, hret, pvars>>

\* Lines 140-142: the time dimension is removed.
SqueezeTime ==
  /\ hpc = "squeeze"
  /\ reference_field' = IF SqueezeWanted(num_prev_files, num_next_files)
                        THEN Squeeze(reference_field) ELSE reference_field
  /\ hpc' = "rainrate"
  /\ UNCHANGED <<source, num_prev_files, num_next_files, return_raw, metadata,
                 upscale, ref_metadata, herr, hret, pvars>>

\* Lines 145-146: stp.utils.to_rainrate.
ToRainrate ==
  /\ hpc = "rainrate"
  /\ reference_field' = Applied(reference_field, "to_rainrate")
  /\ ref_metadata' = Applied(ref_metadata, "to_rainrate")
  /\ hpc' = "upscale"
  /\ UNCHANGED <<source, num_prev_files, num_next_files, return_raw, metadata,
                 upscale, herr, hret, pvars>>

\* Lines 149-151: aggregate_fields_space.
Upscale ==
  /\ hpc = "upscale"
  /\ reference_field' = AggregateFieldsSpace(reference_field, upscale)
  /\ ref_metadata' = AggregateFieldsSpace(ref_metadata, upscale)
  /\ hpc' = "mask"
  /\ UNCHANGED <<source, num_prev_files, num_next_files, return_raw, metadata,
                 upscale, herr, hret, pvars>>

\* Line 154: np.ma.masked_invalid.
MaskInvalid ==
  /\ hpc = "mask"
  /\ reference_field' = Applied(reference_field, "masked_invalid")
  /\ hpc' = "dbr"
  /\ UNCHANGED <<source, num_prev_files, num_next_files, return_raw, metadata,
                 upscale, ref_metadata, herr, hret, pvars>>

\* Lines 157-160: stp.utils.dB_transform.
DbTransform ==
  /\ hpc = "dbr"
  /\ reference_field' = Applied(reference_field, "dB_transform")
  /\ ref_metadata' = Applied(ref_metadata, "dB_transform")
  /\ hpc' = "fill"
  /\ UNCHANGED <<source, num_prev_files, num_next_files, return_raw, metadata,
                 upscale, herr, hret, pvars>>

\* Lines 163-164: the fill value is set and written over the masked values.
FillMissing ==
  /\ hpc = "fill"
  /\ reference_field' = Applied(reference_field, "fill")
  /\ hpc' = "return"
  /\ UNCHANGED <<source, num_prev_files, num_next_files, return_raw, metadata,
                 upscale, ref_metadata, herr, hret, pvars>>

\* Lines 166-169: the field, with the metadata when asked for.
ReturnField ==
  /\ hpc = "return"
  /\ hret' = IF metadata THEN <<reference_field, ref_metadata>>
             ELSE <<reference_field>>
  /\ hpc' = "returned"
  /\ UNCHANGED <<source, num_prev_files, num_next_files, return_raw, metadata,
                 upscale, reference_field, ref_metadata, herr, pvars>>

NextFields ==
  \/ ImportOrSkip
  \/ LookupDate
  \/ ReadTimeseries
  \/ SqueezeTime
  \/ ToRainrate
  \/ Upscale
  \/ MaskInvalid
  \/ DbTransform
  \/ FillMissing
  \/ ReturnField

SpecFields == InitFields /\ [][NextFields]_vars

\* ------------------------------------------------------ claims: proesmans
\* The call has left proesmans, by return or by exception.
Terminal == pc \in {"done", "raised"}

\* The rescaling of line 51 has been executed in this run.
Rescaled == pc \in {"filter", "solve", "done"}

\* The shape the documentation asks for: (2, m, n).
ValidShape(shape) == Len(shape) = 3 /\ shape[1] = 2

DigitVal(t) == CHOOSE d \in 0..9 : Digits[d + 1] = t

RECURSIVE ParseDims(_, _, _)
\* Reads the ints of a printed tuple, up to its closing parenthesis.
ParseDims(toks, cur, acc) ==
  IF toks = <<>> THEN acc
  ELSE LET t == Head(toks)
           done == IF cur >= 0 THEN Append(acc, cur) ELSE acc
       IN  IF t = ")" THEN done
           ELSE IF t = "," THEN ParseDims(Tail(toks), -1, done)
           ELSE IF t \in {" ", "("} THEN ParseDims(Tail(toks), cur, acc)
           ELSE ParseDims(Tail(toks), (IF cur < 0 THEN 0 ELSE cur) * 10 + DigitVal(t), acc)

\* The shape a message reports after "input_images.shape: ", or <<>>.
ShapeInMessage(msg) ==
  IF \E p \in 1..Len(msg) : msg[p] = "input_images.shape: "
  THEN LET p == CHOOSE q \in 1..Len(msg) : msg[q] = "input_images.shape: "
       IN  ParseDims(SubSeq(msg, p + 1, Len(msg)), -1, <<>>)
  ELSE <<>>

\* The exception is the one of the shape check.
IsShapeError(e) ==
  /\ e.type = "ValueError"
  /\ e.msg # <<>>
  /\ e.msg[1] = "input_images dimension mismatch.\n"

\* C1: once the shape check has run, an input that is not 3-dimensional or
\* whose first dimension is not 2 has been rejected with the shape error,
\* whose message reports exactly the received shape, and for an input of
\* shape (2, m, n) no shape error is ever raised.
C1_ShapeErrorIffInvalidShape ==
  /\ ValidShape(input_images.shape) => ~IsShapeError(err)
  /\ (pc # "validate" /\ ~ValidShape(input_images.shape)) =>
       /\ pc = "raised"
       /\ IsShapeError(err)
       /\ ShapeInMessage(err.msg) = input_images.shape

C1_Witness ==
  /\ pc = "raised"
  /\ input_images.shape \in {<<3, 1, 1>>, <<2, 1>>}
  /\ ShapeInMessage(err.msg) = input_images.shape

\* C2: when both frames are constant and equal (im_max = im_min), after the
\* rescaling either a degenerate-input error has been raised or the
\* normalized pair is all zeros, and no division by zero was executed.
C2_NoDivisionByZero ==
  (Rescaled /\ im_max = im_min) =>
    /\ ~div_by_zero
    /\ \/ err.type = "DegenerateInputError"
       \/ \A i \in 1..Len(rescaled) : rescaled[i] = Fin(0)

\* C3: on an input of invalid shape nothing is computed: no frame is copied,
\* nothing is stacked, rescaled or smoothed, the solver is never called, and
\* once the check has run the call has ended with the shape error.
C3_NoComputationOnInvalidInput ==
  ~ValidShape(input_images.shape) =>
    /\ Len(heap) = 1
    /\ im1 = Unbound /\ im2 = Unbound /\ im = Unbound
    /\ im_min = Unset /\ im_max = Unset
    /\ rescaled = <<>>
    /\ gauss_calls = <<>>
    /\ solver_calls = <<>>
    /\ ret = NoResult
    /\ pc \in {"validate", "raised"}
    /\ pc = "raised" => IsShapeError(err)

C3_Witness ==
  /\ pc = "raised"
  /\ Len(input_images.shape) = 3
  /\ input_images.shape[1] = 3
  /\ solver_calls = <<>>
  /\ Len(heap) = 1

\* C4: at every point of every call the caller's array holds what it held
\* when the call was entered, and no local array shares its buffer.
C4_InputNeverMutated ==
  /\ Data(heap, input_images) = input_before
  /\ heap[input_images.buf] = input_before
  /\ \A a \in {im1, im2, im} : a.buf # input_images.buf

C4_Witness ==
  /\ pc = "done"
  /\ gauss_calls # <<>>
  /\ Data(heap, im) # rescaled
  /\ Data(heap, input_images) = input_before

\* C5: for an accepted input with im_max # im_min, im_min and im_max are the
\* minimum and maximum over the pixels of both frames, every rescaled pixel
\* lies in [0, 255], a pixel holding the minimum becomes 0 and one holding
\* the maximum becomes 255 whichever frame it is in, and every pixel x
\* becomes (x - min) / (max - min) * 255 up to the rounding of the division.
C5_JointRescale ==
  (Rescaled /\ im_max # im_min) =>
    LET n == Len(input_before)
        d == im_max.v - im_min.v
    IN  /\ Len(rescaled) = n
        /\ \A i \in 1..n : im_min.v <= input_before[i].v /\ input_before[i].v <= im_max.v
        /\ \E i \in 1..n : input_before[i] = im_min
        /\ \E i \in 1..n : input_before[i] = im_max
        /\ \A i \in 1..n :
             /\ IsFin(rescaled[i])
             /\ 0 <= rescaled[i].v /\ rescaled[i].v <= ScaleMax * Unit
             /\ input_before[i] = im_min => rescaled[i] = FromInt(0)
             /\ input_before[i] = im_max => rescaled[i] = FromInt(ScaleMax)
             /\ Abs(rescaled[i].v * d - (input_before[i].v - im_min.v) * ScaleMax * Unit)
                  <= (ScaleMax \div 2 + 1) * d

C5_Witness ==
  /\ Rescaled
  /\ Len(input_before) = 4
  /\ input_before[1] = im_max /\ input_before[4] = im_min
  /\ im_max.v - im_min.v = 2 * Unit
  /\ \E i \in 1..4 : rescaled[i].v > 0 /\ rescaled[i].v < ScaleMax * Unit

\* C6: once the smoothing step is over, for filter_std <= 0 no Gaussian
\* filter was applied and im is the rescaled pair; for filter_std > 0 the
\* filter was applied exactly twice, to rescaled frame 0 and to rescaled
\* frame 1, each with filter_std, and im holds the two results.  The solver
\* is handed that im.
C6_FilterPassThrough ==
  pc \in {"solve", "done"} =>
    LET n == Len(rescaled) \div 2
    IN  /\ IF filter_std <= 0
           THEN gauss_calls = <<>> /\ Data(heap, im) = rescaled
           ELSE /\ gauss_calls = <<<<SubSeq(rescaled, 1, n), filter_std>>,
                                   <<SubSeq(rescaled, n + 1, 2 * n), filter_std>>>>
                /\ Data(heap, im) = [i \in 1..(2 * n) |->
                     IF i <= n THEN GaussPixel(1, i) ELSE GaussPixel(2, i - n)]
        /\ pc = "done" => solver_calls[1][1] = Data(heap, im)

C6_Witness ==
  /\ pc = "done"
  /\ filter_std = 0
  /\ gauss_calls = <<>>
  /\ solver_calls[1][1] = rescaled
  /\ \E i \in 1..Len(rescaled) : rescaled[i] = FromInt(ScaleMax)

\* C7: the array built for the solver has the input's shape (2, m, n); on
\* return the solver was called exactly once, with that array, and the value
\* returned is the solver's result for that call, of shape (2, m, n).
C7_OutputShape ==
  /\ im # Unbound => im.shape = input_images.shape
  /\ pc = "done" =>
       /\ ValidShape(input_images.shape)
       /\ Len(solver_calls) = 1
       /\ solver_calls[1][2] = input_images.shape
       /\ ret = ComputeAdvectionField(solver_calls[1][1], solver_calls[1][2],
                                      solver_calls[1][3], solver_calls[1][4],
                                      solver_calls[1][5])
       /\ ret.shape = input_images.shape

C7_Witness ==
  /\ pc = "done"
  /\ input_images.shape = <<2, 2, 1>>
  /\ ret.shape = <<2, 2, 1>>

\* C8: a second call with the same array object and the same arguments ends
\* as the first did: the same exception or the same return value, after the
\* same gaussian_filter and solver calls.
C8_SecondRunIdentical ==
  (call_no >= 2 /\ Terminal) => Outcome = prev

C8_Witness ==
  /\ call_no = 2
  /\ pc = "done"
  /\ filter_std > 0
  /\ prev.ret = ret
  /\ ret # NoResult
  /\ im_max # im_min

\* C9 as stated: a stack of more than two frames is accepted, its last two
\* frames being used.
C9_LongerStackAccepted ==
  (Len(input_images.shape) = 3 /\ input_images.shape[1] > 2 /\ pc # "validate")
    => pc # "raised"

\* C9 as amended: once the frames are copied, im1 holds the second-to-last
\* and im2 the last frame of the input along the leading axis, which are
\* frames 0 and 1 because the leading axis has length 2; a 3-dimensional
\* stack of more than two frames is rejected with the shape error.
C9_LastTwoFramesOfPair ==
  /\ pc \in {"stack", "rescale", "filter", "solve", "done"} =>
       LET k == input_images.shape[1]
           n == Size(Tail(input_images.shape))
       IN  /\ k = 2
           /\ Data(heap, im1) = SubSeq(input_before, (k - 2) * n + 1, (k - 1) * n)
           /\ Data(heap, im2) = SubSeq(input_before, (k - 1) * n + 1, k * n)
           /\ im1.shape = Tail(input_images.shape)
           /\ im2.shape = Tail(input_images.shape)
  /\ (Len(input_images.shape) = 3 /\ input_images.shape[1] > 2 /\ pc # "validate")
       => (pc = "raised" /\ err = ShapeError(input_images.shape))

C9_Witness ==
  /\ pc = "stack"
  /\ input_images.shape = <<2, 1, 2>>
  /\ Data(heap, im1) # Data(heap, im2)
  /\ Data(heap, im2) = SubSeq(input_before, 3, 4)

\* ------------------------------------- claims: get_precipitation_fields
\* The documented steps among the operations applied to a field, in order.
DocumentedSteps(ops) ==
  SelectSeq(ops, LAMBDA o : o \in {"to_rainrate", "masked_invalid", "dB_transform"})

\* C10: the field returned with return_raw is the field as read, with
\* nothing applied to it; without return_raw it was converted to mm/h, then
\* masked, then log-transformed, each once and in that order, and it was
\* squeezed exactly when num_prev_files and num_next_files are both 0.
C10_PreprocessIffNotRaw ==
  hpc = "returned" =>
    /\ hret[1] = reference_field
    /\ IF return_raw
       THEN /\ reference_field = RawField(num_prev_files, num_next_files)
            /\ reference_field.ops = <<>>
            /\ reference_field.time_axis
       ELSE /\ DocumentedSteps(reference_field.ops)
                 = <<"to_rainrate", "masked_invalid", "dB_transform">>
            /\ (\E i \in 1..Len(reference_field.ops) : reference_field.ops[i] = "squeeze")
                 <=> (num_prev_files = 0 /\ num_next_files = 0)
            /\ reference_field.time_axis
                 <=> ~(num_prev_files = 0 /\ num_next_files = 0)

C10_Witness ==
  /\ hpc = "returned"
  /\ ~return_raw
  /\ num_prev_files = 0 /\ num_next_files = 0
  /\ upscale # "None"
  /\ ~reference_field.time_axis
  /\ reference_field.ops = <<"squeeze", "to_rainrate", "aggregate_fields_space",
                             "masked_invalid", "dB_transform", "fill">>

====
